---------------------------- MODULE Spec2Model ----------------------------
(***************************************************************************)
(* Gesture interpreter and model normalizer of the AR model viewer.        *)
(*                                                                         *)
(* Two screens carry the gesture interpreter:                              *)
(*   "ARScreen"    src/app/(resources)/ARScreen.tsx  (one fixed model)     *)
(*   "ModelSwitch" src/unnamed/part_005              (model-switching)     *)
(* The variable `variant` says which of the two screens a behaviour is     *)
(* about; the handlers differ where the two files differ.                  *)
(*                                                                         *)
(* JavaScript numbers are modelled as exact rationals <<n, d>> (d > 0,     *)
(* lowest terms), so every product and quotient of the source is computed  *)
(* and nothing is rounded away.  d = 0 encodes Infinity (n # 0) and NaN.   *)
(***************************************************************************)
EXTENDS Integers, Sequences, FiniteSets, TLC

(***************************************************************************)
(* Bounds of the model.                                                    *)
(***************************************************************************)
MaxEvents == 5
MaxTicks == 3

(***************************************************************************)
(* Rational arithmetic.                                                    *)
(***************************************************************************)
Abs(i) == IF i < 0 THEN -i ELSE i

Sign(i) == IF i < 0 THEN -1 ELSE IF i = 0 THEN 0 ELSE 1

RECURSIVE GCD(_, _)
GCD(a, b) == IF b = 0 THEN a ELSE GCD(b, a % b)

Norm(n, d) ==
  IF d = 0 THEN <<Sign(n), 0>>
  ELSE LET g == GCD(Abs(n), Abs(d))
       IN  <<Sign(d) * (n \div g), Abs(d) \div g>>

Q(i) == <<i, 1>>
Frac(n, d) == Norm(n, d)
NaN == <<0, 0>>
IsNaN(a) == a = NaN
IsFinite(a) == a[2] # 0

RNeg(a) == <<-a[1], a[2]>>

RAdd(a, b) ==
  IF IsFinite(a) /\ IsFinite(b) THEN Norm(a[1] * b[2] + b[1] * a[2], a[2] * b[2])
  ELSE IF IsNaN(a) \/ IsNaN(b) THEN NaN
  ELSE IF IsFinite(a) THEN b
  ELSE IF IsFinite(b) THEN a
  ELSE IF a = b THEN a ELSE NaN

RSub(a, b) == RAdd(a, RNeg(b))

RMul(a, b) ==
  IF IsNaN(a) \/ IsNaN(b) THEN NaN ELSE Norm(a[1] * b[1], a[2] * b[2])

RDiv(a, b) ==
  IF IsNaN(a) \/ IsNaN(b) THEN NaN
  ELSE IF ~IsFinite(a) /\ ~IsFinite(b) THEN NaN
  ELSE IF ~IsFinite(b) THEN Q(0)
  ELSE IF ~IsFinite(a) THEN <<a[1] * (IF b[1] < 0 THEN -1 ELSE 1), 0>>
  ELSE Norm(a[1] * b[2], a[2] * b[1])

\* a < b and a <= b as JavaScript evaluates them (false when either is NaN)
RLt(a, b) ==
  IF IsNaN(a) \/ IsNaN(b) THEN FALSE
  ELSE IF IsFinite(a) /\ IsFinite(b) THEN a[1] * b[2] < b[1] * a[2]
  ELSE IF IsFinite(a) THEN b[1] > 0
  ELSE IF IsFinite(b) THEN a[1] < 0
  ELSE a[1] < b[1]

RLe(a, b) == ~IsNaN(a) /\ ~IsNaN(b) /\ (a = b \/ RLt(a, b))

\* Math.max / Math.min (NaN if either argument is NaN)
RMax(a, b) == IF IsNaN(a) \/ IsNaN(b) THEN NaN ELSE IF RLt(a, b) THEN b ELSE a
RMin(a, b) == IF IsNaN(a) \/ IsNaN(b) THEN NaN ELSE IF RLt(b, a) THEN b ELSE a

RAbs(a) == <<Abs(a[1]), a[2]>>

\* Math.sqrt on the squares the touch inputs produce (exact integer root)
\* the largest r in lo..hi with r * r <= n, by bisection
RECURSIVE SqrtIn(_, _, _)
SqrtIn(n, lo, hi) ==
  IF lo >= hi THEN lo
  ELSE LET mid == (lo + hi + 1) \div 2
       IN  IF mid * mid <= n THEN SqrtIn(n, mid, hi) ELSE SqrtIn(n, lo, mid - 1)
\* (46340 is the largest root of a 32-bit square)
Sqrt(n) == SqrtIn(n, 0, IF n < 46340 THEN n ELSE 46340)

(***************************************************************************)
(* Vectors and boxes of the 3D engine (THREE.Vector3, THREE.Box3).         *)
(***************************************************************************)
Vec(x, y, z) == [x |-> x, y |-> y, z |-> z]
Zero3 == Vec(Q(0), Q(0), Q(0))
VAdd(a, b) == Vec(RAdd(a.x, b.x), RAdd(a.y, b.y), RAdd(a.z, b.z))
VSub(a, b) == Vec(RSub(a.x, b.x), RSub(a.y, b.y), RSub(a.z, b.z))
VScale(a, s) == Vec(RMul(a.x, s), RMul(a.y, s), RMul(a.z, s))
VNeg(a) == Vec(RNeg(a.x), RNeg(a.y), RNeg(a.z))
VMin(a, b) == Vec(RMin(a.x, b.x), RMin(a.y, b.y), RMin(a.z, b.z))
VMax(a, b) == Vec(RMax(a.x, b.x), RMax(a.y, b.y), RMax(a.z, b.z))

Box(lo, hi) == [min |-> lo, max |-> hi]
getSize(box) == VSub(box.max, box.min)
getCenter(box) == VScale(VAdd(box.min, box.max), Frac(1, 2))
MaxDim(size) == RMax(RMax(size.x, size.y), size.z)

(***************************************************************************)
(* Program constants.                                                      *)
(***************************************************************************)
\* scale = 2 / maxDim
TargetSize == 2
\* setupModel of the camera scenes: scale = 1.5 / maxDim
SetupTargetSize == Frac(3, 2)
\* scaleFactor = 1 + distanceChange * 0.003
PinchSensitivity == Frac(3, 1000)
\* rotation += gestureState.d * 0.003
RotateSensitivity == Frac(3, 1000)
\* position += gestureState.d * 0.002
PanSensitivity == Frac(2, 1000)
\* Math.max(0.2, Math.min(3.0, newScale))
MinScale == Frac(2, 10)
MaxScale == 3
\* const positionLimit = 2.0
positionLimit == 2
\* moveTime < 150
FastMoveMs == 150
\* Math.abs(gestureState.dx) > 5 && Math.abs(gestureState.dy) > 5
DiagonalPx == 5
\* useRef({ scale: 0.05, lastDistance: 0 })
InitialZoom == Frac(5, 100)

(***************************************************************************)
(* Inputs the environment can deliver.                                     *)
(***************************************************************************)
\* Date.now() when the screen is mounted, and the time between two events
StartTime == 1000
TickMs == 100

Variants == {"ARScreen", "ModelSwitch"}

\* Local bounding boxes of the geometry of the models that can be loaded:
\* an off-centre box of size (4,2,8) and a small one of size (1/10,1/20,1/20)
Geoms ==
  { Box(Vec(Q(2), Q(0), Q(0)), Vec(Q(6), Q(2), Q(8))),
    Box(Zero3, Vec(Frac(1, 10), Frac(1, 20), Frac(1, 20))) }

Pt(x, y) == [pageX |-> x, pageY |-> y]

\* nativeEvent.touches of a frame: one finger, three fingers, and two fingers
\* 250, 500 and 1500 px apart
NoTouches == << >>
OneTouch == << Pt(50, 50) >>
ThreeTouches == << Pt(0, 0), Pt(10, 10), Pt(20, 20) >>
PinchTouches ==
  { << Pt(100, 100), Pt(350, 100) >>,
    << Pt(0, 0), Pt(300, 400) >>,
    << Pt(1000, 1300), Pt(100, 100) >> }
TouchLists == {NoTouches, OneTouch, ThreeTouches} \cup PinchTouches

\* movement of the touch centroid between two move events: of one finger
\* (a short horizontal move, a short diagonal one, and a sweep across the
\* screen), and of the other frames (whose centroid stays in place)
FrameDeltas == { <<10, 0>>, <<-10, -10>>, <<1200, 1500>> }
StillDelta == { <<0, 0>> }
DeltasOf(touches) == IF Len(touches) = 1 THEN FrameDeltas ELSE StillDelta

\* null: no model loaded
NoModel == [null |-> TRUE]

(***************************************************************************)
(* THREE.Object3D: the loaded scene with its transform.  geom is the       *)
(* bounding box of its descendants in its own coordinates.                 *)
(***************************************************************************)
Object3D(g) ==
  [geom |-> g, position |-> Zero3, scale |-> Q(1),
   rotation |-> [x |-> Q(0), y |-> Q(0)]]

Unrotated(o) == o.rotation.x = Q(0) /\ o.rotation.y = Q(0)

SwapXZ(v) == Vec(v.z, v.y, v.x)
SwapYZ(v) == Vec(v.x, v.z, v.y)

\* The geometry's axis-aligned box once the object's rotation is applied.
\* An Euler rotation by a non-zero angle has no rational image; the engine
\* then yields one of the boxes below (the box itself and its quarter turns
\* about y and about x stand for the range of outcomes).
RotatedGeoms(o) ==
  IF Unrotated(o) THEN {o.geom}
  ELSE { o.geom,
         Box(SwapXZ(o.geom.min), SwapXZ(o.geom.max)),
         Box(SwapYZ(o.geom.min), SwapYZ(o.geom.max)) }

\* new THREE.Box3().setFromObject(o): the world box of o, whose geometry
\* box after rotation is rg
setFromObject(o, rg) ==
  LET a == VAdd(VScale(rg.min, o.scale), o.position)
      b == VAdd(VScale(rg.max, o.scale), o.position)
  IN  Box(VMin(a, b), VMax(a, b))

(***************************************************************************)
(* State.                                                                  *)
(***************************************************************************)
VARIABLES
  variant,       \* which screen the behaviour is about
  zoomRef,       \* { scale, lastDistance } (ModelSwitch: and initialScale)
  positionRef,   \* { x, y }: the pan offset
  rotationRef,   \* { x, y }
  gestureRef,    \* { mode, initialTouchTime }
  model,         \* model.scene / modelRef.current.scene, or NoModel
  glRef,         \* TRUE once onContextCreate has stored the GL context
  loading,       \* loads in flight: the downloads and parses not yet settled
  now,           \* Date.now()
  touching,      \* TRUE from onPanResponderGrant to onPanResponderRelease
  gestureState,  \* PanResponder's gestureState: { dx, dy } accumulated since grant
  session,       \* history: when the touch session began, its frames
  ev,            \* history: the event handled last
  obj,           \* the object a normalizer is applied to (SpecNormalize)
  applied,       \* the normalizers applied to obj so far, in order
  modelCache,    \* ModelCacheProvider's state: url -> { data, lastAccessed, parsed }
  loads,         \* the loadModel calls in flight, each with the cache its closures see
  sceneModels,   \* the model scenes among the children of sceneRef.current
  modelRef,      \* ARCameraScene's modelRef.current: a parsed model, or 0 for null
  currentModel,  \* ARCameraScene's currentModel: a url, or 0 for null
  effectPending, \* TRUE while the effect on currentModel?.id is due to run
  clock,         \* Date.now() as the cache reads it
  loadEv,        \* history: the step of the loader taken last
  uiState        \* ARCameraScene's modelLoaded, loadingMessage, loadingError

screenVars ==
  << variant, zoomRef, positionRef, rotationRef, gestureRef, model, glRef,
     loading, now, touching, gestureState, session, ev >>

normVars == << obj, applied >>

loadVars ==
  << modelCache, loads, sceneModels, modelRef, currentModel, effectPending,
     clock, loadEv, uiState >>

vars == << screenVars, normVars, loadVars >>

Origin2 == [x |-> Q(0), y |-> Q(0)]

\* useState<Record<string, ModelCacheEntry>>({})
EmptyCache == [u \in {} |-> 0]

NoLoadEvent ==
  [op |-> "none", url |-> 0, id |-> 0, downloaded |-> FALSE, calls |-> 0]

\* null, for a message or an error
Null == "null"

\* useState(false), useState('Loading...'), useState(null)
InitialUiState ==
  [modelLoaded |-> FALSE, loadingMessage |-> "Loading...", loadingError |-> Null]

\* the camera scene before any selection, with nothing cached
LoaderIdle ==
  /\ modelCache = EmptyCache
  /\ loads = {}
  /\ sceneModels = {}
  /\ modelRef = 0
  /\ currentModel = 0
  /\ effectPending = FALSE
  /\ clock = StartTime
  /\ loadEv = NoLoadEvent
  /\ uiState = InitialUiState

NoEvent ==
  [seq |-> 0, type |-> "none", n |-> 0, decided |-> FALSE, zoomed |-> FALSE]

\* the record of an event: its kind, the number of touches of its frame,
\* whether it is the frame that resolved the single-finger mode, and whether
\* it is a pinch frame that computed a new scale
Event(type, n, decided, zoomed) ==
  [seq |-> ev.seq + 1, type |-> type, n |-> n, decided |-> decided,
   zoomed |-> zoomed]

\* the session record after a frame of n touches
Frame(n) == [session EXCEPT !.prevN = session.lastN, !.lastN = n]

(***************************************************************************)
(* Normalization.                                                          *)
(***************************************************************************)
\* a scale fitted to the width of the box instead of its longest dimension
NormalizedScaleByWidth(o, rg) ==
  LET o1 == [o EXCEPT !.position = Zero3]
      box == setFromObject(o1, rg)
  IN  RDiv(Q(TargetSize), getSize(box).x)

\* const scale = 2 / maxDim, from the box of the object moved to the origin
NormalizedScale(o, rg) ==
  LET o1 == [o EXCEPT !.position = Zero3]
      box == setFromObject(o1, rg)
      maxDim == MaxDim(getSize(box))
  IN  RDiv(Q(TargetSize), maxDim)

\* The object after position.set(0,0,0), scale.set(scale), and
\* position.set(-center) with the centre of the box recomputed after scaling
normalizeModel(o, rg) ==
  LET scale == NormalizedScale(o, rg)
      o2 == [o EXCEPT !.position = Zero3, !.scale = scale]
      center == getCenter(setFromObject(o2, rg))
  IN  [o2 EXCEPT !.position = VNeg(center)]

(***************************************************************************)
(* Touch handlers.                                                         *)
(***************************************************************************)
\* getDistance(touches)
getDistance(touches) ==
  IF Len(touches) < 2 THEN Q(0)
  ELSE LET dx == touches[1].pageX - touches[2].pageX
           dy == touches[1].pageY - touches[2].pageY
       IN  Q(Sqrt(dx * dx + dy * dy))

\* the lower zoom limit of the pinch branch
minScale ==
  IF variant = "ModelSwitch" THEN RMul(zoomRef.initialScale, MinScale)
  ELSE MinScale

\* Math.max(minScale, Math.min(3.0, newScale))
ClampScale(newScale) == RMax(minScale, RMin(Q(MaxScale), newScale))

\* a pinch branch that scales by the distance itself, not by its change
PinchZoomByDistance(touches) ==
  LET currentDistance == getDistance(touches)
      scaleFactor == RAdd(Q(1), RMul(currentDistance, PinchSensitivity))
      newScale == RMul(zoomRef.scale, scaleFactor)
  IN  IF RLt(Q(0), zoomRef.lastDistance)
      THEN [zoomRef EXCEPT !.scale = ClampScale(newScale),
                           !.lastDistance = currentDistance]
      ELSE [zoomRef EXCEPT !.lastDistance = currentDistance]

\* zoomRef.current after a two-finger move frame
PinchZoom(touches) ==
  LET currentDistance == getDistance(touches)
      distanceChange == RSub(currentDistance, zoomRef.lastDistance)
      scaleFactor == RAdd(Q(1), RMul(distanceChange, PinchSensitivity))
      newScale == RMul(zoomRef.scale, scaleFactor)
  IN  IF RLt(Q(0), zoomRef.lastDistance)
      THEN [zoomRef EXCEPT !.scale = ClampScale(newScale),
                           !.lastDistance = currentDistance]
      ELSE [zoomRef EXCEPT !.lastDistance = currentDistance]

\* the mode chosen when none is decided yet
ResolveMode(moveTime, gs) ==
  IF moveTime < FastMoveMs \/ (Abs(gs.dx) > DiagonalPx /\ Abs(gs.dy) > DiagonalPx)
  THEN "rotate" ELSE "pan"

\* a mode resolution that runs on every one-finger frame, decided or not
ModeAfterAlways(gs) == ResolveMode(now - gestureRef.initialTouchTime, gs)

\* gestureRef.current.mode after the mode resolution of a one-finger frame
ModeAfter(gs) ==
  IF gestureRef.mode = "none"
  THEN ResolveMode(now - gestureRef.initialTouchTime, gs)
  ELSE gestureRef.mode

\* rotationRef.current after a frame in rotate mode
Rotated(gs) ==
  [y |-> RAdd(rotationRef.y, RMul(Q(gs.dx), RotateSensitivity)),
   x |-> RAdd(rotationRef.x, RMul(Q(gs.dy), RotateSensitivity))]

\* a pan without position limits
NoClampPosition(v) == v

ClampPosition(v) == RMax(Q(-positionLimit), RMin(Q(positionLimit), v))

\* positionRef.current after a frame in pan mode
Panned(gs) ==
  [x |-> ClampPosition(RAdd(positionRef.x, RMul(Q(gs.dx), PanSensitivity))),
   y |-> ClampPosition(RSub(positionRef.y, RMul(Q(gs.dy), PanSensitivity)))]

\* PanResponder: gestureState.dx/dy is the distance accumulated since the grant
Accumulate(d) == [dx |-> gestureState.dx + d[1], dy |-> gestureState.dy + d[2]]

onPanResponderGrant(touches) ==
  /\ ~touching
  /\ ev.seq < MaxEvents
  /\ touching' = TRUE
  /\ gestureState' = [dx |-> 0, dy |-> 0]
  /\ IF Len(touches) = 2
     THEN /\ zoomRef' = [zoomRef EXCEPT !.lastDistance = getDistance(touches)]
          /\ UNCHANGED gestureRef
     ELSE IF Len(touches) = 1
     THEN /\ gestureRef' = [mode |-> "none", initialTouchTime |-> now]
          /\ UNCHANGED zoomRef
     ELSE UNCHANGED << zoomRef, gestureRef >>
  /\ session' = [start |-> now, n0 |-> Len(touches), prevN |-> 0,
                 lastN |-> Len(touches)]
  /\ ev' = Event("grant", Len(touches), FALSE, FALSE)
  /\ UNCHANGED << variant, positionRef, rotationRef, model, glRef, loading, now >>
  /\ UNCHANGED << normVars, loadVars >>

\* a move handler that takes every frame of two or more touches for a pinch
onPanResponderMoveAnyPinch(touches, d) ==
  /\ touching
  /\ ev.seq < MaxEvents
  /\ gestureState' = Accumulate(d)
  /\ session' = Frame(Len(touches))
  /\ IF Len(touches) >= 2
     THEN /\ zoomRef' = PinchZoom(touches)
          /\ model' = IF model # NoModel /\ RLt(Q(0), zoomRef.lastDistance)
                      THEN [model EXCEPT !.scale = zoomRef'.scale]
                      ELSE model
          /\ ev' = Event("move", Len(touches), FALSE, RLt(Q(0), zoomRef.lastDistance))
          /\ UNCHANGED << gestureRef, rotationRef, positionRef >>
     ELSE IF Len(touches) = 1
     THEN LET gs == Accumulate(d)
              mode == ModeAfter(gs)
          IN  /\ gestureRef' = [gestureRef EXCEPT !.mode = mode]
              /\ ev' = Event("move", 1, gestureRef.mode = "none", FALSE)
              /\ IF mode = "rotate"
                 THEN /\ rotationRef' = Rotated(gs)
                      /\ model' = IF model # NoModel
                                  THEN [model EXCEPT !.rotation = rotationRef']
                                  ELSE model
                      /\ UNCHANGED positionRef
                 ELSE /\ positionRef' = Panned(gs)
                      /\ model' = IF model # NoModel
                                  THEN [model EXCEPT
                                          !.position.x = positionRef'.x,
                                          !.position.y = positionRef'.y]
                                  ELSE model
                      /\ UNCHANGED rotationRef
              /\ UNCHANGED zoomRef
     ELSE /\ ev' = Event("move", Len(touches), FALSE, FALSE)
          /\ UNCHANGED << zoomRef, gestureRef, rotationRef, positionRef, model >>
  /\ UNCHANGED << variant, glRef, loading, now, touching >>
  /\ UNCHANGED << normVars, loadVars >>

onPanResponderMove(touches, d) ==
  /\ touching
  /\ ev.seq < MaxEvents
  /\ gestureState' = Accumulate(d)
  /\ session' = Frame(Len(touches))
  /\ IF Len(touches) = 2
     THEN /\ zoomRef' = PinchZoom(touches)
          /\ model' = IF model # NoModel /\ RLt(Q(0), zoomRef.lastDistance)
                      THEN [model EXCEPT !.scale = zoomRef'.scale]
                      ELSE model
          /\ ev' = Event("move", 2, FALSE, RLt(Q(0), zoomRef.lastDistance))
          /\ UNCHANGED << gestureRef, rotationRef, positionRef >>
     ELSE IF Len(touches) = 1
     THEN LET gs == Accumulate(d)
              mode == ModeAfter(gs)
          IN  /\ gestureRef' = [gestureRef EXCEPT !.mode = mode]
              /\ ev' = Event("move", 1, gestureRef.mode = "none", FALSE)
              /\ IF mode = "rotate"
                 THEN /\ rotationRef' = Rotated(gs)
                      /\ model' = IF model # NoModel
                                  THEN [model EXCEPT !.rotation = rotationRef']
                                  ELSE model
                      /\ UNCHANGED positionRef
                 ELSE /\ positionRef' = Panned(gs)
                      /\ model' = IF model # NoModel
                                  THEN [model EXCEPT
                                          !.position.x = positionRef'.x,
                                          !.position.y = positionRef'.y]
                                  ELSE model
                      /\ UNCHANGED rotationRef
              /\ UNCHANGED zoomRef
     ELSE /\ ev' = Event("move", Len(touches), FALSE, FALSE)
          /\ UNCHANGED << zoomRef, gestureRef, rotationRef, positionRef, model >>
  /\ UNCHANGED << variant, glRef, loading, now, touching >>
  /\ UNCHANGED << normVars, loadVars >>

\* a release that forgets to reset the single-finger mode
onPanResponderReleaseKeepsMode ==
  /\ touching
  /\ ev.seq < MaxEvents
  /\ touching' = FALSE
  /\ zoomRef' = [zoomRef EXCEPT !.lastDistance = Q(0)]
  /\ session' = Frame(0)
  /\ ev' = Event("release", 0, FALSE, FALSE)
  /\ UNCHANGED << variant, positionRef, rotationRef, gestureRef, model, glRef,
                  loading, now, gestureState >>
  /\ UNCHANGED << normVars, loadVars >>

onPanResponderRelease ==
  /\ touching
  /\ ev.seq < MaxEvents
  /\ touching' = FALSE
  /\ zoomRef' = [zoomRef EXCEPT !.lastDistance = Q(0)]
  /\ gestureRef' = [gestureRef EXCEPT !.mode = "none"]
  /\ session' = Frame(0)
  /\ ev' = Event("release", 0, FALSE, FALSE)
  /\ UNCHANGED << variant, positionRef, rotationRef, model, glRef, loading,
                  now, gestureState >>
  /\ UNCHANGED << normVars, loadVars >>

(***************************************************************************)
(* Loading and resetting.                                                  *)
(***************************************************************************)
\* onContextCreate up to the download: the GL context is stored and the
\* download of the model begins
onContextCreate ==
  /\ ~glRef
  /\ ev.seq < MaxEvents
  /\ glRef' = TRUE
  /\ loading' = [loading EXCEPT !.context = TRUE]
  /\ ev' = Event("context", 0, FALSE, FALSE)
  /\ UNCHANGED << variant, zoomRef, positionRef, rotationRef, gestureRef, model,
                  now, touching, gestureState, session >>
  /\ UNCHANGED << normVars, loadVars >>

\* onContextCreate once the model is downloaded and parsed: the scene is
\* normalized in place and the three refs are initialised
onContextLoaded(g) ==
  /\ loading.context
  /\ ev.seq < MaxEvents
  /\ loading' = [loading EXCEPT !.context = FALSE]
  /\ model' = normalizeModel(Object3D(g), g)
  /\ zoomRef' = IF variant = "ModelSwitch"
                THEN [scale |-> model'.scale, lastDistance |-> Q(0),
                      initialScale |-> model'.scale]
                ELSE [scale |-> model'.scale, lastDistance |-> Q(0)]
  /\ positionRef' = Origin2
  /\ rotationRef' = Origin2
  /\ ev' = Event("load", 0, FALSE, FALSE)
  /\ UNCHANGED << variant, gestureRef, glRef, now, touching, gestureState, session >>
  /\ UNCHANGED << normVars, loadVars >>

\* onContextCreate when the download or the parse fails: the catch block
onContextFailed ==
  /\ loading.context
  /\ ev.seq < MaxEvents
  /\ loading' = [loading EXCEPT !.context = FALSE]
  /\ ev' = Event("loadfailed", 0, FALSE, FALSE)
  /\ UNCHANGED << variant, zoomRef, positionRef, rotationRef, gestureRef, model,
                  glRef, now, touching, gestureState, session >>
  /\ UNCHANGED << normVars, loadVars >>

\* loadAndDisplayModel up to the download (model-switching screen)
loadAndDisplayModel ==
  /\ variant = "ModelSwitch"
  /\ glRef
  /\ ev.seq < MaxEvents
  /\ model' = NoModel
  /\ loading' = [loading EXCEPT !.display = @ + 1]
  /\ ev' = Event("switch", 0, FALSE, FALSE)
  /\ UNCHANGED << variant, zoomRef, positionRef, rotationRef, gestureRef, glRef,
                  now, touching, gestureState, session >>
  /\ UNCHANGED << normVars, loadVars >>

\* the parse callback of loadAndDisplayModel
onModelParsed(g) ==
  /\ variant = "ModelSwitch"
  /\ loading.display > 0
  /\ ev.seq < MaxEvents
  /\ loading' = [loading EXCEPT !.display = @ - 1]
  /\ model' = normalizeModel(Object3D(g), g)
  /\ zoomRef' = [zoomRef EXCEPT !.scale = model'.scale,
                                !.initialScale = model'.scale]
  /\ ev' = Event("load", 0, FALSE, FALSE)
  /\ UNCHANGED << variant, positionRef, rotationRef, gestureRef, glRef, now,
                  touching, gestureState, session >>
  /\ UNCHANGED << normVars, loadVars >>

\* loadAndDisplayModel when the download or the parse fails
onModelFailed ==
  /\ variant = "ModelSwitch"
  /\ loading.display > 0
  /\ ev.seq < MaxEvents
  /\ loading' = [loading EXCEPT !.display = @ - 1]
  /\ ev' = Event("loadfailed", 0, FALSE, FALSE)
  /\ UNCHANGED << variant, zoomRef, positionRef, rotationRef, gestureRef, model,
                  glRef, now, touching, gestureState, session >>
  /\ UNCHANGED << normVars, loadVars >>

\* resetModel (ARScreen).  `model` is a variable of the render the button
\* belongs to: `sees` says whether that render is the one whose model was
\* assigned by onContextCreate.
resetModel(sees) ==
  /\ variant = "ARScreen"
  /\ ev.seq < MaxEvents
  /\ IF model # NoModel /\ sees
     THEN \E rg \in RotatedGeoms(model) :
            /\ model' = [normalizeModel(model, rg) EXCEPT !.rotation = Origin2]
            /\ zoomRef' = [zoomRef EXCEPT !.scale = model'.scale]
            /\ positionRef' = Origin2
            /\ rotationRef' = Origin2
     ELSE UNCHANGED << model, zoomRef, positionRef, rotationRef >>
  /\ ev' = Event("reset", 0, FALSE, FALSE)
  /\ UNCHANGED << variant, gestureRef, glRef, loading, now, touching,
                  gestureState, session >>
  /\ UNCHANGED << normVars, loadVars >>

\* resetModelTransform (model-switching screen)
resetModelTransform ==
  /\ variant = "ModelSwitch"
  /\ ev.seq < MaxEvents
  /\ IF model # NoModel
     THEN /\ model' = [model EXCEPT !.position = Zero3, !.rotation = Origin2,
                                    !.scale = zoomRef.initialScale]
          /\ zoomRef' = [scale |-> zoomRef.initialScale, lastDistance |-> Q(0),
                         initialScale |-> zoomRef.initialScale]
     ELSE UNCHANGED << model, zoomRef >>
  /\ positionRef' = Origin2
  /\ rotationRef' = Origin2
  /\ ev' = Event("reset", 0, FALSE, FALSE)
  /\ UNCHANGED << variant, gestureRef, glRef, loading, now, touching,
                  gestureState, session >>
  /\ UNCHANGED << normVars, loadVars >>

\* Time passes.  Date.now() is read by the grant and by the mode resolution
\* only, so the clock need advance only while a session has no mode yet.
Tick ==
  /\ touching
  /\ gestureRef.mode = "none"
  /\ now < StartTime + MaxTicks * TickMs
  /\ now' = now + TickMs
  /\ UNCHANGED << variant, zoomRef, positionRef, rotationRef, gestureRef, model,
                  glRef, loading, touching, gestureState, session, ev >>
  /\ UNCHANGED << normVars, loadVars >>

(***************************************************************************)
(* The specification.                                                      *)
(***************************************************************************)
ScreenInit ==
  /\ variant \in Variants
  /\ zoomRef = IF variant = "ModelSwitch"
               THEN [scale |-> InitialZoom, lastDistance |-> Q(0),
                     initialScale |-> InitialZoom]
               ELSE [scale |-> InitialZoom, lastDistance |-> Q(0)]
  /\ positionRef = Origin2
  /\ rotationRef = Origin2
  /\ gestureRef = [mode |-> "none", initialTouchTime |-> 0]
  /\ model = NoModel
  /\ glRef = FALSE
  /\ loading = [context |-> FALSE, display |-> 0]
  /\ now = StartTime
  /\ touching = FALSE
  /\ gestureState = [dx |-> 0, dy |-> 0]
  /\ session = [start |-> 0, n0 |-> 0, prevN |-> 0, lastN |-> 0]
  /\ ev = NoEvent

Init ==
  /\ ScreenInit
  /\ obj = NoModel
  /\ applied = << >>
  /\ LoaderIdle

Next ==
  \/ \E t \in {OneTouch} \cup PinchTouches : onPanResponderGrant(t)
  \/ \E t \in TouchLists : \E d \in DeltasOf(t) : onPanResponderMove(t, d)
  \/ onPanResponderRelease
  \/ onContextCreate
  \/ \E g \in Geoms : onContextLoaded(g)
  \/ onContextFailed
  \/ loadAndDisplayModel
  \/ \E g \in Geoms : onModelParsed(g)
  \/ onModelFailed
  \/ \E sees \in BOOLEAN : resetModel(sees)
  \/ resetModelTransform
  \/ Tick

Spec == Init /\ [][Next]_vars

(***************************************************************************)
(* The normalizers as functions of the object they are given:              *)
(* normalizeModel, and setupModel of the camera scenes.  loadModel applies *)
(* setupModel to a freshly parsed scene and, on a later selection of the   *)
(* same url, to the cached parsed scene again.                             *)
(***************************************************************************)
MaxApply == 3

\* bounding boxes of freshly parsed scenes: each size about each centre; the
\* size (0,0,0) is that of a scene whose geometry is a single point
NormSizes ==
  { Vec(Q(4), Q(2), Q(8)),
    Zero3,
    Vec(Frac(1, 10), Frac(1, 20), Frac(1, 20)),
    Vec(Q(100), Q(20), Q(30)),
    Vec(Q(2), Q(2), Q(2)),
    Vec(Q(1), Q(5), Q(1)) }
NormCentres ==
  { Zero3, Vec(Q(4), Q(1), Q(4)), Vec(Q(-10), Q(10), Frac(1, 2)) }
BoxAbout(c, size) ==
  Box(VSub(c, VScale(size, Frac(1, 2))), VAdd(c, VScale(size, Frac(1, 2))))
NormGeoms == { BoxAbout(c, size) : c \in NormCentres, size \in NormSizes }

\* setupModel: the box of the scene as it stands, scale = 1.5 / maxDim,
\* position = -center * scale
setupModel(o) ==
  LET box == setFromObject(o, o.geom)
      center == getCenter(box)
      maxDim == MaxDim(getSize(box))
      scale == RDiv(SetupTargetSize, maxDim)
  IN  [o EXCEPT !.scale = scale, !.position = VScale(VNeg(center), scale)]

\* the inline normalization is applied to the same scene again by resetModel
ApplyNormalizeModel ==
  /\ Len(applied) < MaxApply
  /\ \A k \in 1..Len(applied) : applied[k] = "normalizeModel"
  /\ obj' = normalizeModel(obj, obj.geom)
  /\ zoomRef' = [zoomRef EXCEPT !.scale = obj'.scale]
  /\ applied' = Append(applied, "normalizeModel")
  /\ UNCHANGED loadVars
  /\ UNCHANGED << variant, positionRef, rotationRef, gestureRef, model, glRef,
                  loading, now, touching, gestureState, session, ev >>

\* setupModel is applied to the same scene again by loadModel's cached path
ApplySetupModel ==
  /\ Len(applied) < MaxApply
  /\ \A k \in 1..Len(applied) : applied[k] = "setupModel"
  /\ obj' = setupModel(obj)
  /\ applied' = Append(applied, "setupModel")
  /\ UNCHANGED << screenVars, loadVars >>

NormInit ==
  /\ ScreenInit
  /\ variant = "ARScreen"
  /\ obj \in { Object3D(g) : g \in NormGeoms }
  /\ applied = << >>
  /\ LoaderIdle

NormNext ==
  \/ ApplyNormalizeModel
  \/ ApplySetupModel

SpecNormalize == NormInit /\ [][NormNext]_vars

\* the world box of an object
WorldBox(o) == setFromObject(o, o.geom)

\* maxDim > 0 for the geometry of o
HasExtent(o) == RLt(Q(0), MaxDim(getSize(o.geom)))

IsDiagonal(gs) == Abs(gs.dx) > 5 /\ Abs(gs.dy) > 5

(***************************************************************************)
(* The camera scene's loader and the model cache (ModelCacheProvider).     *)
(* A call of loadModel runs in steps: its synchronous start, the end of    *)
(* its download and the end of its parse.  The cache functions a call uses *)
(* are closures of the render it started in: they read the cache as it was *)
(* then (snap), while setModelCache(prev => ...) updates the current one.  *)
(***************************************************************************)
MAX_CACHE_SIZE == 10
MaxLoads == 3

\* the models that can be selected (their urls)
Models == {MAX_CACHE_SIZE + 1, MAX_CACHE_SIZE + 2}

\* the number of entries other screens have left in the cache
PrefillSizes == {0, MAX_CACHE_SIZE - 1, MAX_CACHE_SIZE}

Entry(data, t, parsed) == [data |-> data, lastAccessed |-> t, parsed |-> parsed]

Prefilled(k) == [u \in 1..k |-> Entry(TRUE, u, 0)]

Has(c, u) == u \in DOMAIN c

\* { ...prev, [url]: e }
Put(c, u, e) == [v \in DOMAIN c \cup {u} |-> IF v = u THEN e ELSE c[v]]

\* prev => ({ ...prev, [url]: { ...prev[url], lastAccessed: Date.now() } })
Touch(c, u, t) ==
  Put(c, u, IF Has(c, u) THEN [c[u] EXCEPT !.lastAccessed = t]
            ELSE Entry(FALSE, t, 0))

\* cacheEntries.sort(by lastAccessed)[0][0]
Oldest(c) ==
  CHOOSE u \in DOMAIN c :
    \A v \in DOMAIN c : c[u].lastAccessed <= c[v].lastAccessed

\* manageCacheSize: the cache after it, given the cache the closure sees
manageCacheSize(snap, cur) ==
  IF Cardinality(DOMAIN snap) < MAX_CACHE_SIZE THEN cur
  ELSE [v \in DOMAIN snap \ {Oldest(snap)} |-> snap[v]]

\* getParsedModel: the parsed model of url, or 0 for undefined
getParsedModel(snap, u) ==
  IF Has(snap, u) /\ snap[u].parsed # 0 THEN snap[u].parsed ELSE 0

\* setParsedModel: the cache after it
setParsedModel(snap, cur, u, m, t) ==
  IF Has(snap, u)
  THEN Put(cur, u, IF Has(cur, u)
                   THEN [cur[u] EXCEPT !.parsed = m, !.lastAccessed = t]
                   ELSE Entry(FALSE, t, m))
  ELSE cur

LoadEvent(op, u, id, downloaded, calls) ==
  [op |-> op, url |-> u, id |-> id, downloaded |-> downloaded, calls |-> calls]

\* loadModel(url) up to its first await: the displayed model is removed; a
\* cached parsed model is set up at once; otherwise the data is taken from
\* the cache or its download begins
loadModel(u, ui) ==
  LET snap == modelCache
      cached == getParsedModel(snap, u)
      id == loadEv.calls + 1
      cleared == IF modelRef # 0 THEN sceneModels \ {modelRef} ELSE sceneModels
  IN  /\ loadEv.calls < MaxLoads
      /\ clock' = clock + 1
      /\ IF cached # 0
         THEN /\ modelCache' = Touch(modelCache, u, clock)
              /\ modelRef' = cached
              /\ sceneModels' = cleared \cup {cached}
              /\ loads' = loads
              /\ loadEv' = LoadEvent("cached", u, id, FALSE, id)
              /\ uiState' = [ui EXCEPT !.modelLoaded = TRUE,
                                       !.loadingMessage = Null]
         ELSE /\ modelRef' = 0
              /\ sceneModels' = cleared
              /\ loadEv' = LoadEvent("started", u, id, FALSE, id)
              /\ IF Has(snap, u)
                 THEN /\ modelCache' = Touch(modelCache, u, clock)
                      /\ loads' = loads \cup
                           {[id |-> id, url |-> u, snap |-> snap,
                             pc |-> "parse", downloaded |-> FALSE]}
                      /\ uiState' = [ui EXCEPT !.loadingMessage =
                                                 "Processing model..."]
                 ELSE /\ modelCache' = modelCache
                      /\ loads' = loads \cup
                           {[id |-> id, url |-> u, snap |-> snap,
                             pc |-> "download", downloaded |-> FALSE]}
                      /\ uiState' = [ui EXCEPT !.loadingMessage =
                                                 "Downloading model..."]

\* handleModelSelected(model)
handleModelSelected(u) ==
  /\ currentModel' = u
  /\ effectPending' = IF currentModel # u THEN TRUE ELSE effectPending
  /\ loadModel(u, [modelLoaded |-> FALSE, loadingError |-> Null,
                   loadingMessage |-> "Loading new model..."])
  /\ UNCHANGED << screenVars, normVars >>

\* useEffect(() => loadModel(currentModel.url), [currentModel?.id])
RunEffect ==
  /\ effectPending
  /\ effectPending' = FALSE
  /\ loadModel(currentModel, uiState)
  /\ UNCHANGED << currentModel, screenVars, normVars >>

\* getModelData after axios.get: manageCacheSize(), then the entry is added
DownloadDone(l) ==
  /\ l \in loads /\ l.pc = "download"
  /\ modelCache' = Put(manageCacheSize(l.snap, modelCache), l.url,
                       Entry(TRUE, clock, 0))
  /\ loads' = (loads \ {l}) \cup {[l EXCEPT !.pc = "parse", !.downloaded = TRUE]}
  /\ clock' = clock + 1
  /\ loadEv' = LoadEvent("downloaded", l.url, l.id, TRUE, loadEv.calls)
  /\ uiState' = [uiState EXCEPT !.loadingMessage = "Processing model..."]
  /\ UNCHANGED << sceneModels, modelRef, currentModel, effectPending,
                  screenVars, normVars >>

\* the download fails: loadModelFromUrl sets loadingError and returns null,
\* and loadModel throws 'Could not load model data'
DownloadFailed(l) ==
  /\ l \in loads /\ l.pc = "download"
  /\ loads' = loads \ {l}
  /\ loadEv' = LoadEvent("downloadfailed", l.url, l.id, FALSE, loadEv.calls)
  /\ uiState' = [uiState EXCEPT !.loadingError =
                                  "Network error when downloading model"]
  /\ UNCHANGED << modelCache, sceneModels, modelRef, currentModel,
                  effectPending, clock, screenVars, normVars >>

\* loadModel after loader.parse: modelRef is set, the parsed model is offered
\* to the cache, and setupModel adds it to the scene
ParseDone(l) ==
  /\ l \in loads /\ l.pc = "parse"
  /\ modelRef' = l.id
  /\ modelCache' = setParsedModel(l.snap, modelCache, l.url, l.id, clock)
  /\ sceneModels' = sceneModels \cup {l.id}
  /\ loads' = loads \ {l}
  /\ clock' = clock + 1
  /\ loadEv' = LoadEvent("parsed", l.url, l.id, l.downloaded, loadEv.calls)
  /\ uiState' = [uiState EXCEPT !.modelLoaded = TRUE, !.loadingMessage = Null]
  /\ UNCHANGED << currentModel, effectPending, screenVars, normVars >>

\* loader.parse rejects: the rejection leaves loadModel, which sets no state
ParseFailed(l) ==
  /\ l \in loads /\ l.pc = "parse"
  /\ loads' = loads \ {l}
  /\ loadEv' = LoadEvent("parsefailed", l.url, l.id, l.downloaded, loadEv.calls)
  /\ UNCHANGED << modelCache, sceneModels, modelRef, currentModel,
                  effectPending, clock, uiState, screenVars, normVars >>

\* clearCache
clearCache ==
  /\ modelCache # EmptyCache
  /\ modelCache' = EmptyCache
  /\ loadEv' = LoadEvent("cleared", 0, 0, FALSE, loadEv.calls)
  /\ UNCHANGED << loads, sceneModels, modelRef, currentModel, effectPending,
                  clock, uiState, screenVars, normVars >>

LoadInit ==
  /\ ScreenInit
  /\ variant = "ARScreen"
  /\ obj = NoModel
  /\ applied = << >>
  /\ \E k \in PrefillSizes : modelCache = Prefilled(k)
  /\ loads = {}
  /\ sceneModels = {}
  /\ modelRef = 0
  /\ currentModel = 0
  /\ effectPending = FALSE
  /\ clock = StartTime
  /\ loadEv = NoLoadEvent
  /\ uiState = InitialUiState

LoadNext ==
  \/ \E u \in Models : handleModelSelected(u)
  \/ RunEffect
  \/ \E l \in loads : DownloadDone(l)
  \/ \E l \in loads : DownloadFailed(l)
  \/ \E l \in loads : ParseDone(l)
  \/ \E l \in loads : ParseFailed(l)
  \/ clearCache

SpecLoad == LoadInit /\ [][LoadNext]_vars

(***************************************************************************)
(* C1: on the ARScreen screen zoomRef.scale lies within [0.2, 3.0] in      *)
(* every reachable state: at start-up, after normalization on load or by   *)
(* Reset View, and after any sequence of touch events.                     *)
(***************************************************************************)
C1_ScaleWithinZoomRange ==
  variant = "ARScreen" =>
    RLe(Frac(2, 10), zoomRef.scale) /\ RLe(zoomRef.scale, Q(3))

(***************************************************************************)
(* C2: on the model-switching screen, after every two-finger move that     *)
(* updates the scale, zoomRef.scale is within [0.2 x initialScale, 3.0],   *)
(* and the lower bound does not exceed the upper bound.                    *)
(***************************************************************************)
C2_PinchScaleWithinRange ==
  (variant = "ModelSwitch" /\ ev.type = "move" /\ ev.zoomed) =>
    LET lower == RMul(Frac(2, 10), zoomRef.initialScale)
    IN  /\ RLe(lower, Q(3))
        /\ RLe(lower, zoomRef.scale)
        /\ RLe(zoomRef.scale, Q(3))

(***************************************************************************)
(* C3: within one touch session, once a single-finger move has set the     *)
(* mode to 'rotate' or 'pan' the mode does not change before release,      *)
(* whatever one-finger and two-finger frames follow.                       *)
(***************************************************************************)
C3_ModeDecidedOnce ==
  [][(touching /\ touching' /\ gestureRef.mode \in {"rotate", "pan"})
       => gestureRef'.mode = gestureRef.mode]_vars

\* a session in pan mode receives, after a two-finger frame, a one-finger
\* frame whose movement is diagonal, and is still in pan mode
C3_Witness ==
  /\ touching
  /\ gestureRef.mode = "pan"
  /\ ev.type = "move" /\ ev.n = 1 /\ ~ev.decided
  /\ session.prevN = 2
  /\ IsDiagonal(gestureState)

(***************************************************************************)
(* C4: the first single-finger move of a session whose mode is still       *)
(* undetermined sets the mode to rotate if the time elapsed since the      *)
(* touch started is below 150 ms or the movement is diagonal (|dx| > 5 and *)
(* |dy| > 5), and to pan in every other case.                              *)
(***************************************************************************)
C4_ModeResolution ==
  (ev.type = "move" /\ ev.n = 1 /\ ev.decided) =>
    gestureRef.mode =
      IF now - session.start < 150 \/ IsDiagonal(gestureState)
      THEN "rotate" ELSE "pan"

(***************************************************************************)
(* C5: when a session begins with two fingers and continues with one, the  *)
(* rotate/pan decision of the first single-finger move uses a start time   *)
(* recorded during the current session.                                    *)
(***************************************************************************)
C5_StartTimeOfThisSession ==
  (ev.type = "move" /\ ev.n = 1 /\ ev.decided /\ session.n0 = 2) =>
    gestureRef.initialTouchTime >= session.start

(***************************************************************************)
(* C6: when the fingers go 2 -> 1 -> 2 inside one session, the first       *)
(* two-finger move of the second pinch does not compute a scale change     *)
(* from the distance remembered from the first pinch: a pinch frame that   *)
(* computes a new scale follows a two-finger frame of the same pinch,      *)
(* which measured the distance it compares with.                           *)
(***************************************************************************)
C6_PinchDistanceFresh ==
  (ev.type = "move" /\ ev.n = 2 /\ ev.zoomed) => session.prevN = 2

(***************************************************************************)
(* C7: in rotate mode each single-finger move adds to rotation.y the       *)
(* finger's x movement since the previous move event times 0.003, and to   *)
(* rotation.x the y movement since the previous move event times 0.003.    *)
(***************************************************************************)
C7_RotationAddsFrameDelta ==
  [][(ev'.seq # ev.seq /\ ev'.type = "move" /\ ev'.n = 1
        /\ gestureRef'.mode = "rotate")
       => /\ rotationRef'.y =
               RAdd(rotationRef.y,
                    RMul(Q(gestureState'.dx - gestureState.dx), Frac(3, 1000)))
          /\ rotationRef'.x =
               RAdd(rotationRef.x,
                    RMul(Q(gestureState'.dy - gestureState.dy), Frac(3, 1000)))]_vars

(***************************************************************************)
(* C8: a pan move changes the model's x/y position by exactly the amount   *)
(* by which it changes the pan offset positionRef.                         *)
(***************************************************************************)
C8_PanMovesByDelta ==
  [][(ev'.seq # ev.seq /\ ev'.type = "move" /\ ev'.n = 1
        /\ gestureRef'.mode = "pan" /\ model # NoModel)
       => /\ RSub(model'.position.x, model.position.x)
               = RSub(positionRef'.x, positionRef.x)
          /\ RSub(model'.position.y, model.position.y)
               = RSub(positionRef'.y, positionRef.y)]_vars

(***************************************************************************)
(* C9: normalizing a freshly loaded object whose bounding box has          *)
(* maxDim > 0 sets scale = 2 / maxDim, so that the longest dimension of    *)
(* its box after scaling is 2; size (4,2,8) gives scale 0.25.              *)
(***************************************************************************)
C9_NormalizedToTargetSize ==
  (applied = << "normalizeModel" >> /\ HasExtent(obj)) =>
    LET size == getSize(obj.geom)
    IN  /\ obj.scale = RDiv(Q(2), MaxDim(size))
        /\ MaxDim(getSize(WorldBox(obj))) = Q(2)
        /\ (size = Vec(Q(4), Q(2), Q(8)) => obj.scale = Frac(1, 4))

\* an off-centre scene of size (4,2,8) has been normalized
C9_Witness ==
  /\ applied = << "normalizeModel" >>
  /\ getSize(obj.geom) = Vec(Q(4), Q(2), Q(8))
  /\ getCenter(obj.geom) # Zero3
  /\ obj.scale = Frac(1, 4)

(***************************************************************************)
(* C10: after normalization the centre of the bounding box of the scaled   *)
(* and translated object is the origin, whatever position the object had   *)
(* before, for normalizeModel and for setupModel.                          *)
(***************************************************************************)
C10_CentredAtOrigin ==
  (applied # << >> /\ HasExtent(obj)) => getCenter(WorldBox(obj)) = Zero3

(***************************************************************************)
(* C11: normalizing an object whose bounding box has maxDim <= 0 fails     *)
(* with DegenerateGeometryError: no infinite or NaN scale is written to    *)
(* the object or to zoomRef.                                               *)
(***************************************************************************)
C11_DegenerateRejected ==
  (applied = << "normalizeModel" >> /\ ~HasExtent(obj)) =>
    IsFinite(obj.scale) /\ IsFinite(zoomRef.scale)

\* the scale normalization gives a freshly loaded scene: 2 / maxDim
Baseline(o) == RDiv(Q(TargetSize), MaxDim(getSize(o.geom)))

(***************************************************************************)
(* C12: the scale computed by normalization is the baseline of the zoom    *)
(* clamp, whose limits are multiples of it: a loaded model that is at its  *)
(* baseline scale gets larger when a pinch widens and smaller when a pinch *)
(* narrows.                                                                *)
(***************************************************************************)
C12_ZoomBothWaysFromBaseline ==
  [][(ev'.seq # ev.seq /\ ev'.type = "move" /\ ev'.zoomed /\ model # NoModel
        /\ zoomRef.scale = Baseline(model))
       => /\ RLt(zoomRef.lastDistance, zoomRef'.lastDistance)
               => RLt(zoomRef.scale, zoomRef'.scale)
          /\ RLt(zoomRef'.lastDistance, zoomRef.lastDistance)
               => RLt(zoomRef'.scale, zoomRef.scale)]_vars

(***************************************************************************)
(* The pinch branch as a function of zoomRef and of the frame's touches:   *)
(* a touch session in progress, with the scales and the pinch distances    *)
(* that loads and earlier frames leave behind, receives two-finger frames. *)
(***************************************************************************)
MaxPinch == 2

\* two fingers 100, 130, 250 and 500 px apart
PinchFrames ==
  { << Pt(0, 0), Pt(100, 0) >>,
    << Pt(0, 0), Pt(50, 120) >>,
    << Pt(100, 100), Pt(350, 100) >>,
    << Pt(0, 0), Pt(300, 400) >> }

PinchScales == { Q(1), Frac(1, 4), InitialZoom, Q(3), Q(20) }
PinchDistances == { Q(0), Q(100), Q(130), Q(500) }

PinchInit ==
  /\ variant \in Variants
  /\ \E sc \in PinchScales, ld \in PinchDistances :
       zoomRef = IF variant = "ModelSwitch"
                 THEN [scale |-> sc, lastDistance |-> ld, initialScale |-> sc]
                 ELSE [scale |-> sc, lastDistance |-> ld]
  /\ positionRef = Origin2
  /\ rotationRef = Origin2
  /\ gestureRef = [mode |-> "none", initialTouchTime |-> StartTime]
  /\ model = NoModel
  /\ glRef = FALSE
  /\ loading = [context |-> FALSE, display |-> 0]
  /\ now = StartTime
  /\ touching = TRUE
  /\ gestureState = [dx |-> 0, dy |-> 0]
  /\ session = [start |-> StartTime, n0 |-> 1, prevN |-> 0, lastN |-> 1]
  /\ ev = NoEvent
  /\ obj = NoModel
  /\ applied = << >>
  /\ LoaderIdle

PinchNext ==
  \E t \in PinchFrames : ev.seq < MaxPinch /\ onPanResponderMove(t, <<0, 0>>)

SpecPinch == PinchInit /\ [][PinchNext]_vars

(***************************************************************************)
(* C13: on a two-finger move with distance d, if lastDistance > 0 the      *)
(* scale becomes clamp(scale * (1 + (d - lastDistance) * 0.003)) with the  *)
(* clamp to [0.2, 3.0], otherwise the scale is unchanged; in both cases    *)
(* lastDistance becomes d.  lastDistance 100, d 130, scale 1 give 1.09.    *)
(***************************************************************************)
C13_PinchScaleFormula ==
  [][\A t \in PinchFrames :
       (variant = "ARScreen" /\ onPanResponderMove(t, <<0, 0>>)) =>
         LET d == getDistance(t)
             factor == RAdd(Q(1), RMul(RSub(d, zoomRef.lastDistance),
                                       Frac(3, 1000)))
             scaled == RMul(zoomRef.scale, factor)
             clamped == IF RLt(scaled, Frac(2, 10)) THEN Frac(2, 10)
                        ELSE IF RLt(Q(3), scaled) THEN Q(3) ELSE scaled
         IN  /\ zoomRef'.lastDistance = d
             /\ zoomRef'.scale = IF RLt(Q(0), zoomRef.lastDistance)
                                 THEN clamped ELSE zoomRef.scale
             /\ (zoomRef.lastDistance = Q(100) /\ zoomRef.scale = Q(1)
                   /\ t = << Pt(0, 0), Pt(50, 120) >>)
                  => (zoomRef'.scale = Frac(109, 100)
                        /\ zoomRef'.lastDistance = Q(130))]_vars

\* the frame of the example has been handled
C13_Witness ==
  /\ variant = "ARScreen"
  /\ ev.seq = 1 /\ ev.type = "move" /\ ev.n = 2 /\ ev.zoomed
  /\ zoomRef.scale = Frac(109, 100)
  /\ zoomRef.lastDistance = Q(130)

(***************************************************************************)
(* C14: after any sequence of touch events positionRef.x and positionRef.y *)
(* lie within [-2.0, 2.0]; a pan move adds gestureState.dx * 0.002 to x    *)
(* and subtracts gestureState.dy * 0.002 from y before clamping.           *)
(***************************************************************************)
C14_PanOffsetWithinLimit ==
  [][/\ RLe(Q(-2), positionRef'.x) /\ RLe(positionRef'.x, Q(2))
     /\ RLe(Q(-2), positionRef'.y) /\ RLe(positionRef'.y, Q(2))
     /\ (ev'.seq # ev.seq /\ ev'.type = "move" /\ ev'.n = 1
           /\ gestureRef'.mode = "pan")
          => LET x == RAdd(positionRef.x,
                           RMul(Q(gestureState'.dx), Frac(2, 1000)))
                 y == RSub(positionRef.y,
                           RMul(Q(gestureState'.dy), Frac(2, 1000)))
                 lim(v) == IF RLt(v, Q(-2)) THEN Q(-2)
                           ELSE IF RLt(Q(2), v) THEN Q(2) ELSE v
             IN  positionRef' = [x |-> lim(x), y |-> lim(y)]]_vars

\* a pan frame whose sweep would take the offset to (2.44, -3) has been handled
C14_Witness ==
  /\ ev.type = "move" /\ ev.n = 1 /\ gestureRef.mode = "pan"
  /\ gestureState = [dx |-> 1210, dy |-> 1500]
  /\ positionRef = [x |-> Q(2), y |-> Q(-2)]

(***************************************************************************)
(* C15: whenever a touch session ends with all fingers released, the       *)
(* interpreter is back in Idle, zoomRef.lastDistance = 0 and               *)
(* gestureRef.mode = 'none', and stays so until the next touch; the        *)
(* release leaves scale, rotation and pan offset as they were.             *)
(***************************************************************************)
C15_ReleaseReturnsToIdle ==
  /\ [](~touching => (zoomRef.lastDistance = Q(0) /\ gestureRef.mode = "none"))
  /\ [][(ev'.seq # ev.seq /\ ev'.type = "release")
          => /\ ~touching'
             /\ zoomRef'.scale = zoomRef.scale
             /\ rotationRef' = rotationRef
             /\ positionRef' = positionRef]_vars

\* a session that pinched the scale to 0.2 and panned has been released
C15_Witness ==
  /\ ev.type = "release"
  /\ ~touching
  /\ zoomRef.scale = Frac(2, 10)
  /\ positionRef # Origin2

(***************************************************************************)
(* C16: a move frame changes only the state of its own branch: a frame     *)
(* with exactly two touches changes only scale and lastDistance; a frame   *)
(* with exactly one touch changes only the mode and either the rotation or *)
(* the pan offset; a frame with zero or more than two touches changes      *)
(* nothing.                                                                *)
(***************************************************************************)
C16_FrameEffects ==
  [][(ev'.seq # ev.seq /\ ev'.type = "move")
       => /\ ev'.n = 2 =>
               /\ gestureRef' = gestureRef
               /\ rotationRef' = rotationRef
               /\ positionRef' = positionRef
          /\ ev'.n = 1 =>
               /\ zoomRef' = zoomRef
               /\ gestureRef'.initialTouchTime = gestureRef.initialTouchTime
               /\ gestureRef'.mode = "rotate" => positionRef' = positionRef
               /\ gestureRef'.mode = "pan" => rotationRef' = rotationRef
          /\ ev'.n \notin {1, 2} =>
               /\ zoomRef' = zoomRef
               /\ gestureRef' = gestureRef
               /\ rotationRef' = rotationRef
               /\ positionRef' = positionRef
               /\ model' = model]_vars

\* a three-finger frame has been handled in the middle of a pinch
C16_Witness ==
  /\ ev.type = "move" /\ ev.n = 3
  /\ session.prevN = 2
  /\ RLt(Q(0), zoomRef.lastDistance)

(***************************************************************************)
(* C17: the model cache never holds more than MAX_CACHE_SIZE (10) entries, *)
(* after any sequence of cache calls and for every interleaving of         *)
(* concurrently running downloads of different urls.                       *)
(***************************************************************************)
C17_CacheSizeBounded == Cardinality(DOMAIN modelCache) <= 10

(***************************************************************************)
(* C18: when the download of a url that is not cached completes while the  *)
(* cache is full, exactly one entry is evicted, the one with the smallest  *)
(* lastAccessed, and every other entry in the cache at that moment is      *)
(* still in the cache afterwards.                                          *)
(***************************************************************************)
C18_EvictsOldestOnly ==
  [][(clock' # clock /\ loadEv'.op = "downloaded"
        /\ Cardinality(DOMAIN modelCache) = 10
        /\ ~Has(modelCache, loadEv'.url))
       => DOMAIN modelCache' =
            (DOMAIN modelCache \ {Oldest(modelCache)}) \cup {loadEv'.url}]_vars

(***************************************************************************)
(* C19: after loadModel(url) has downloaded and parsed a model, the parsed *)
(* model is stored in the cache entry of that url, where the next          *)
(* loadModel(url) finds it.                                                *)
(***************************************************************************)
C19_ParsedModelCached ==
  (loadEv.op = "parsed" /\ loadEv.downloaded) =>
    getParsedModel(modelCache, loadEv.url) = loadEv.id

(***************************************************************************)
(* C20: at any time the scene graph contains at most one model scene, for  *)
(* every sequence of selections and every interleaving of the downloads    *)
(* and parses.                                                             *)
(***************************************************************************)
C20_SingleModelInScene == Cardinality(sceneModels) <= 1

(***************************************************************************)
(* C21: once all in-flight loads have completed, the model held in         *)
(* modelRef and shown in the scene is the model selected most recently,    *)
(* even when the download of an earlier selection finishes last.           *)
(***************************************************************************)
C21_LatestSelectionWins ==
  (loads = {} /\ ~effectPending /\ loadEv.op \in {"parsed", "cached"}) =>
    /\ loadEv.url = currentModel
    /\ modelRef \in sceneModels

(***************************************************************************)
(* C22: setting up a model is idempotent: when the same parsed model       *)
(* object is set up again (the cached-parse path of loadModel), its scale  *)
(* and position after the second setupModel equal those after the first.   *)
(***************************************************************************)
C22_SetupModelIdempotent ==
  ( /\ Len(applied) >= 2
    /\ \A k \in 1..Len(applied) : applied[k] = "setupModel"
    /\ HasExtent(obj) ) =>
      LET first == setupModel(Object3D(obj.geom))
      IN  /\ obj.scale = first.scale
          /\ obj.position = first.position

(***************************************************************************)
(* C23: Reset View is a round trip to the loaded state: after a model is   *)
(* loaded and gestures are applied, resetModel / resetModelTransform       *)
(* leaves the model with the scale and position normalization gave it at   *)
(* load time and zero rotation, zoomRef.scale equal to that scale and the  *)
(* pan and rotation accumulators at (0, 0).                                *)
(***************************************************************************)
C23_ResetRestoresLoadedState ==
  (ev.type = "reset" /\ model # NoModel) =>
    LET loaded == normalizeModel(Object3D(model.geom), model.geom)
    IN  /\ model.scale = loaded.scale
        /\ model.position = loaded.position
        /\ model.rotation = Origin2
        /\ zoomRef.scale = loaded.scale
        /\ positionRef = Origin2
        /\ rotationRef = Origin2

\* loadModel has thrown ('Could not load model data', or the parse rejection)
\* and neither handleModelSelected nor the effect catches what it returns
UnhandledRejection == loadEv.op \in {"downloadfailed", "parsefailed"}

(***************************************************************************)
(* C24: if the download or the parse of a selected model fails, the load   *)
(* ends in an error state: loadingError is non-null, loadingMessage is     *)
(* null, modelLoaded is false, no model of this load is in the scene, and  *)
(* loadModel does not end in an unhandled rejection.                       *)
(***************************************************************************)
C24_FailedLoadEndsInErrorState ==
  loadEv.op \in {"downloadfailed", "parsefailed"} =>
    /\ uiState.loadingError # Null
    /\ uiState.loadingMessage = Null
    /\ ~uiState.modelLoaded
    /\ loadEv.id \notin sceneModels
    /\ ~UnhandledRejection

(***************************************************************************)
(* C25: getModelData never issues a second network download for a url      *)
(* whose data is in the cache or whose download is still in flight: at any *)
(* moment at most one download of a url is in flight, and none is in       *)
(* flight for a url whose data the cache holds.                            *)
(***************************************************************************)
C25_OneDownloadPerUrl ==
  \A l \in loads : l.pc = "download" =>
    /\ ~(Has(modelCache, l.url) /\ modelCache[l.url].data)
    /\ \A k \in loads : (k.pc = "download" /\ k.url = l.url) => k = l

=============================================================================
